---------------------------- MODULE Spec2Model ----------------------------
(***************************************************************************)
(* A model of the weather bot (src/bot.py): the recipient registry CHATS    *)
(* and its durable record chats.json, the update handlers, the report       *)
(* build and the two daily jobs that broadcast a report and prune the       *)
(* recipients whose delivery failed.                                        *)
(*                                                                          *)
(* The program runs on one asyncio event loop.  An action of the model is   *)
(* one run of a coroutine between two suspension points (the awaits on the  *)
(* weather provider, on send_message and on reply_text): everything the     *)
(* code does between two awaits is one atomic step.                         *)
(***************************************************************************)
EXTENDS Integers, Sequences, FiniteSets, TLC

\* ------------------------------------------------------------------ bounds

\* Chat ids are -1 (a group chat: Telegram gives groups negative ids) and
\* 1..MaxChatId.
MaxChatId == 2

\* Updates dispatched to a handler in one behaviour.
MaxUpdates == 2

\* Firings of the daily jobs in one behaviour.
MaxFires == 1

\* Failed writes of chats.json in one behaviour.
MaxWriteFailures == 1

\* Days the clock of SchedSpec runs through.
MaxDays == 2

\* Records of the hourly series of ReportSpec.
MaxTimes == 3

\* ---------------------------------------------------------------- constants

\* len(LOCATIONS)
NumLocations == 2

\* run_daily(send_today, time=time(6, 0, tzinfo=TZ))
TodayHour == 6

\* run_daily(send_tomorrow, time=time(19, 0, tzinfo=TZ))
TomorrowHour == 19

\* "forecast_days": 2
ForecastDays == 2

ChatIds == {-1} \cup (1..MaxChatId)

Jobs == {"today", "tomorrow"}

\* ------------------------------------------------- the durable record's text

\* chats.json is modelled at the level of JSON tokens (the whitespace that
\* indent=2 adds is skipped by json.loads and left out).  A token is a record
\* [k, v]: "num" is the integer literal v, "str" a string literal whose content
\* is the decimal numeral of v (int("7") = 7), "word" a string literal that is
\* no numeral, "junk" bytes that are no JSON token.
Tok(k, v) == [k |-> k, v |-> v]
LB == Tok("lb", 0)
RB == Tok("rb", 0)
COMMA == Tok("comma", 0)
LBRACE == Tok("lbrace", 0)
RBRACE == Tok("rbrace", 0)
NULL == Tok("null", 0)
WORD == Tok("word", 0)
JUNK == Tok("junk", 0)
Num(n) == Tok("num", n)
Str(n) == Tok("str", n)

ScalarKinds == {"num", "str", "word", "null"}

\* The file system's view of chats.json.
NoFile == [exists |-> FALSE, text |-> <<>>]
FileOf(text) == [exists |-> TRUE, text |-> text]

\* json.dumps of a list of integers.
RECURSIVE dumps_items(_)
dumps_items(l) ==
    IF l = <<>> THEN <<>>
    ELSE IF Len(l) = 1 THEN <<Num(l[1])>>
    ELSE <<Num(l[1]), COMMA>> \o dumps_items(Tail(l))

json_dumps(l) == <<LB>> \o dumps_items(l) \o <<RB>>

\* The elements of a JSON array's inside (the tokens between the brackets):
\* element (comma element)*.  ok is FALSE when the text is not of that shape.
RECURSIVE loads_items(_)
loads_items(t) ==
    IF t = <<>> THEN [ok |-> FALSE, items |-> <<>>]
    ELSE IF Head(t).k \notin ScalarKinds THEN [ok |-> FALSE, items |-> <<>>]
    ELSE IF Len(t) = 1 THEN [ok |-> TRUE, items |-> <<Head(t)>>]
    ELSE IF t[2] # COMMA THEN [ok |-> FALSE, items |-> <<>>]
    ELSE LET rest == loads_items(SubSeq(t, 3, Len(t)))
         IN  [ok |-> rest.ok,
              items |-> IF rest.ok THEN <<Head(t)>> \o rest.items ELSE <<>>]

\* json.loads: ok is FALSE for a JSONDecodeError; otherwise kind is "list"
\* (with its elements), "object" or "scalar".
json_loads(t) ==
    LET bad == [ok |-> FALSE, kind |-> "none", items |-> <<>>]
    IN  IF t = <<>> THEN bad
        ELSE IF Len(t) = 1
             THEN IF Head(t).k \in ScalarKinds
                  THEN [ok |-> TRUE, kind |-> "scalar", items |-> <<>>]
                  ELSE bad
        ELSE IF t = <<LBRACE, RBRACE>>
             THEN [ok |-> TRUE, kind |-> "object", items |-> <<>>]
        ELSE IF Head(t) = LB /\ t[Len(t)] = RB
             THEN IF Len(t) = 2
                  THEN [ok |-> TRUE, kind |-> "list", items |-> <<>>]
                  ELSE LET r == loads_items(SubSeq(t, 2, Len(t) - 1))
                       IN  IF r.ok
                           THEN [ok |-> TRUE, kind |-> "list", items |-> r.items]
                           ELSE bad
        ELSE bad

\* int(x) of a decoded JSON element raises for None (TypeError) and for a
\* string that is no numeral (ValueError).
int_raises(tok) == tok.k \notin {"num", "str"}

\* The body of load_chats' try block: raised is TRUE when it ends with an
\* exception, val is what it returns otherwise.
load_try(t) ==
    LET data == json_loads(t)
    IN  IF ~data.ok THEN [raised |-> TRUE, val |-> {}]
        ELSE IF data.kind = "list"
             THEN IF \E i \in 1..Len(data.items) : int_raises(data.items[i])
                  THEN [raised |-> TRUE, val |-> {}]
                  ELSE [raised |-> FALSE,
                        val |-> {data.items[i].v : i \in 1..Len(data.items)}]
        ELSE [raised |-> FALSE, val |-> {}]

\* load_chats without its except clause: what a slip in the error handling
\* would leave.
load_chats_unguarded(f) ==
    IF ~f.exists THEN [raised |-> FALSE, val |-> {}] ELSE load_try(f.text)

\* load_chats: raised says whether the call ends with an exception.
load_chats(f) ==
    IF ~f.exists THEN [raised |-> FALSE, val |-> {}]
    ELSE LET r == load_try(f.text)
         IN  IF r.raised THEN [raised |-> FALSE, val |-> {}] ELSE r

\* ------------------------------------------------------------- save_chats

\* A Python set is iterated in an order the program does not control: perm is
\* an order of all chat ids, and a set is iterated in that order.
Orders == {p \in [1..Cardinality(ChatIds) -> ChatIds] :
              \A i, j \in 1..Cardinality(ChatIds) : i # j => p[i] # p[j]}

RECURSIVE IterList(_, _)
IterList(S, perm) ==
    IF perm = <<>> THEN <<>>
    ELSE IF Head(perm) \in S THEN <<Head(perm)>> \o IterList(S, Tail(perm))
    ELSE IterList(S, Tail(perm))

RECURSIVE insert_sorted(_, _)
insert_sorted(x, s) ==
    IF s = <<>> THEN <<x>>
    ELSE IF x <= Head(s) THEN <<x>> \o s
    ELSE <<Head(s)>> \o insert_sorted(x, Tail(s))

\* sorted() with the sort left out.
sorted_unsorted(l) == l

\* sorted(iterable) of distinct integers.
RECURSIVE sorted(_)
sorted(l) ==
    IF l = <<>> THEN <<>> ELSE insert_sorted(Head(l), sorted(Tail(l)))

\* How a write_text call ends.  "ok": the file holds the whole text.
\* "open_fail": open(..., "w") raised, the file is as it was.  "write_fail":
\* the file was created or truncated and the call raised with only part of
\* the text in the file: nothing ("none"), all but the closing bracket
\* ("most"), or the whole text, the error coming at close ("all").  Every
\* proper prefix of the text is invalid JSON, and load_chats reads them alike.
WriteOk == [kind |-> "ok", part |-> "all"]
WriteFailures ==
    {[kind |-> "open_fail", part |-> "none"]}
        \cup {[kind |-> "write_fail", part |-> p] : p \in {"none", "most", "all"}}

Torn(text, part) ==
    CASE part = "none" -> <<>>
      [] part = "most" -> SubSeq(text, 1, Len(text) - 1)
      [] OTHER -> text

\* save_chats that swallows the write error.
save_chats_swallow(f, chat_ids, perm, w) ==
    LET text == json_dumps(sorted(IterList(chat_ids, perm)))
    IN  CASE w.kind = "ok" -> [file |-> FileOf(text), raised |-> FALSE]
          [] w.kind = "open_fail" -> [file |-> f, raised |-> FALSE]
          [] OTHER -> [file |-> FileOf(Torn(text, w.part)),
                       raised |-> FALSE]

\* save_chats(chat_ids): CHATS_FILE.write_text(json.dumps(sorted(chat_ids))).
save_chats(f, chat_ids, perm, w) ==
    LET text == json_dumps(sorted(IterList(chat_ids, perm)))
    IN  CASE w.kind = "ok" -> [file |-> FileOf(text), raised |-> FALSE]
          [] w.kind = "open_fail" -> [file |-> f, raised |-> TRUE]
          [] OTHER -> [file |-> FileOf(Torn(text, w.part)),
                       raised |-> TRUE]

\* ------------------------------------------- register_chat, unregister_chat

\* What a call of register_chat or unregister_chat did: the set and the file
\* after it, ret ("true", "false", or "raise" when the call ended with the
\* write's exception), and whether it called save_chats.
Outcome(chats, f, ret, wrote) ==
    [chats |-> chats, file |-> f, ret |-> ret, wrote |-> wrote]

\* register_chat that saves on every call.
register_chat_always_saves(chats, f, chat_id, perm, w) ==
    LET s == save_chats(f, chats \cup {chat_id}, perm, w)
    IN  Outcome(chats \cup {chat_id}, s.file,
                IF s.raised THEN "raise"
                ELSE IF chat_id \in chats THEN "false" ELSE "true", TRUE)

\* register_chat that writes the record before it adds the id.
register_chat_saves_first(chats, f, chat_id, perm, w) ==
    IF chat_id \notin chats
    THEN LET s == save_chats(f, chats, perm, w)
         IN  Outcome(chats \cup {chat_id}, s.file,
                     IF s.raised THEN "raise" ELSE "true", TRUE)
    ELSE Outcome(chats, f, "false", FALSE)

register_chat(chats, f, chat_id, perm, w) ==
    IF chat_id \notin chats
    THEN LET s == save_chats(f, chats \cup {chat_id}, perm, w)
         IN  Outcome(chats \cup {chat_id}, s.file,
                     IF s.raised THEN "raise" ELSE "true", TRUE)
    ELSE Outcome(chats, f, "false", FALSE)

\* unregister_chat that reports a removal whether or not the id was there.
unregister_chat_always_true(chats, f, chat_id, perm, w) ==
    LET s == save_chats(f, chats \ {chat_id}, perm, w)
    IN  Outcome(chats \ {chat_id}, s.file,
                IF s.raised THEN "raise" ELSE "true", TRUE)

unregister_chat(chats, f, chat_id, perm, w) ==
    IF chat_id \in chats
    THEN LET s == save_chats(f, chats \ {chat_id}, perm, w)
         IN  Outcome(chats \ {chat_id}, s.file,
                     IF s.raised THEN "raise" ELSE "true", TRUE)
    ELSE Outcome(chats, f, "false", FALSE)

\* ------------------------------------------------------------ build_report

\* How an awaited fetch_weather call ends: "ok" (the provider's data),
\* "http_error" (the request times out or raise_for_status raises), or
\* "malformed" (a body without the hourly series: get_hour_forecast raises
\* KeyError on it).
FetchResults == {"ok", "http_error", "malformed"}

\* build_report that leaves a failed location out and goes on.
build_resume_partial(loc, lines, res) ==
    LET got == IF res = "ok" THEN Append(lines, loc) ELSE lines
    IN  IF loc < NumLocations
        THEN [pc |-> "fetch", loc |-> loc + 1, lines |-> got, text |-> <<>>]
        ELSE [pc |-> "built", loc |-> 0, lines |-> <<>>, text |-> got]

\* build_report, resumed from its await on the fetch for location loc with
\* result res: lines is the list of blocks rendered so far (one per location,
\* named by the location's index); text is the report returned at the end.
build_resume(loc, lines, res) ==
    IF res # "ok"
    THEN [pc |-> "raise", loc |-> 0, lines |-> <<>>, text |-> <<>>]
    ELSE IF loc < NumLocations
         THEN [pc |-> "fetch", loc |-> loc + 1, lines |-> Append(lines, loc),
               text |-> <<>>]
         ELSE [pc |-> "built", loc |-> 0, lines |-> <<>>,
               text |-> Append(lines, loc)]

\* ------------------------------------------------------------------- state

VARIABLES
    up,          \* "down", "booted" (module imported, main() not yet called), "running"
    CHATS,       \* the global CHATS
    file,        \* chats.json
    loadRaised,  \* the import-time load_chats() ended with an exception
    lastWrite,   \* how the latest save_chats call of this process ended: "none", "ok", "fail"
    lastAdd,     \* [id, n]: the latest n (counted to 2) store calls were register_chat(id)
    h,           \* the update handler in progress (updates are handled one at a time)
    job,         \* the run in progress of each daily job
    nUpd, nFire, nWFail,
    wr,          \* a write_text call seen at the level of the file system (WriteSpec)
    sched,       \* the clock and the two daily timers (SchedSpec)
    rep          \* the rendering of one location's block of a report (ReportSpec)

vars == <<up, CHATS, file, loadRaised, lastWrite, lastAdd, h, job,
          nUpd, nFire, nWFail, wr, sched, rep>>

\* The state of the finer-grained views, which the steps of Spec leave alone:
\* Spec takes a write_text call as one step, lets a timer fire at any time and
\* takes a fetched location as rendered or not.
aux == <<wr, sched, rep>>

\* No write_text call is in progress.  pc: "idle", "opened" (the file is
\* open and truncated), "flushed" (the text is in the file, not yet closed);
\* old is the file before the call, text the text to write, seen what a
\* reader of the file got (NotRead: nothing was read).
NotRead == [exists |-> FALSE, text |-> <<JUNK>>]
WrIdle == [pc |-> "idle", old |-> NoFile, text |-> <<>>, seen |-> NotRead]

\* The days of the clock, which counts the hours since midnight (Europe/Moscow,
\* a zone without daylight saving) of day 1.
Days == 1..MaxDays
HourOf(t) == t % 24
DayOf(t) == (t \div 24) + 1

\* now: the clock.  runs[j]: the executions of job j in progress, each at
\* "fetch" (in build_report) or "send" (in broadcast), oldest first.
\* ran[j][d]: how many executions of j were started on day d.  missed[j]:
\* the days whose instant of j passed with the process down.  skipped[j]: the
\* days whose fire of j the scheduler dropped.
SchedOff == [now |-> 0,
             runs |-> [j \in Jobs |-> <<>>],
             ran |-> [j \in Jobs |-> [d \in Days |-> 0]],
             missed |-> [j \in Jobs |-> {}],
             skipped |-> [j \in Jobs |-> {}]]

\* No block is being rendered.  pc: "off", "data" (the provider's data is
\* there), "slots" (the target date is resolved; the slots are rendered one
\* by one), "done" or "failed" (an exception left build_report).  times: the
\* hourly series; target: what _target_date_from_hourly_times returned;
\* slots: what get_hour_forecast returned for the markers so far.
NoTarget == [raised |-> FALSE, val |-> 0]
RepOff == [pc |-> "off", times |-> <<>>, day_index |-> 0, target |-> NoTarget,
           slots |-> <<>>]

AuxIdle == wr = WrIdle /\ sched = SchedOff /\ rep = RepOff

Commands == {"start", "chatid", "today", "tomorrow", "now", "stop", "new_members"}

\* pc: "idle", "fetch" (awaiting the fetch for location loc), "reply"
\* (awaiting reply_text), "returned" or "failed" (an exception left the
\* handler).  ret and wrote are what the handler's store call returned and
\* whether it called save_chats; wfail: a write of that call failed.
HIdle == [pc |-> "idle", cmd |-> "none", ret |-> "none", wrote |-> FALSE,
          wfail |-> FALSE, loc |-> 0, lines |-> <<>>, text |-> <<>>]

NoAttempts == [c \in ChatIds |-> 0]

\* pc: "idle", "fetch", "send" (awaiting send_message to cur) or "done" (the
\* coroutine ended as out says: "skipped", "build_failed", "send_failed",
\* "write_failed" or "returned").  snap, todo, cur, dead are broadcast's
\* locals and att the send_message calls it made.  failed: the recipients
\* whose send raised; file0: chats.json when broadcast was called; mut:
\* another coroutine changed the store since; wfail: a write of the pruning
\* failed; late: the recipients that were no longer in CHATS when their send
\* was started.
JIdle == [pc |-> "idle", loc |-> 0, lines |-> <<>>, text |-> <<>>, fetches |-> 0,
          snap |-> {}, todo |-> {}, cur |-> 0, dead |-> {}, att |-> NoAttempts,
          failed |-> {}, file0 |-> NoFile, mut |-> FALSE, wfail |-> FALSE,
          late |-> {}, out |-> "none"]

NoAdd == [id |-> 0, n |-> 0]

\* The members of S in ascending order.
Ascending(S) ==
    CHOOSE s \in [1..Cardinality(S) -> S] :
        \A i, j \in 1..Cardinality(S) : i < j => s[i] < s[j]

\* The records chats.json may hold when the process first starts: none,
\* records that are no JSON, JSON that is no array, arrays with an element
\* int() rejects, arrays int() accepts that save_chats would not have written
\* (a numeral in a string, a duplicate, unsorted), and what a save_chats
\* call may have left.
InitRecords ==
    {NoFile,
     FileOf(<<>>),
     FileOf(<<JUNK>>),
     FileOf(<<LB, Num(1)>>),
     FileOf(<<LBRACE, RBRACE>>),
     FileOf(<<Num(1)>>),
     FileOf(<<LB, Num(1), COMMA, NULL, RB>>),
     FileOf(<<LB, WORD, RB>>),
     FileOf(<<LB, Str(1), RB>>),
     FileOf(<<LB, Num(1), COMMA, Num(-1), COMMA, Num(1), RB>>)}
        \cup {FileOf(<<LB>> \o [i \in 1..Cardinality(S) |-> Num(Ascending(S)[i])] \o <<RB>>) :
                 S \in SUBSET ChatIds}

Init ==
    /\ up = "down"
    /\ CHATS = {}
    /\ file \in InitRecords
    /\ loadRaised = FALSE
    /\ lastWrite = "none"
    /\ lastAdd = NoAdd
    /\ h = HIdle
    /\ job = [j \in Jobs |-> JIdle]
    /\ nUpd = 0
    /\ nFire = 0
    /\ nWFail = 0
    /\ AuxIdle

\* ------------------------------------------------------- the process's life

\* CHATS: set[int] = load_chats(), run when the module is imported.  An
\* exception here ends the process before main() is called.
Import ==
    /\ up = "down"
    /\ ~loadRaised
    /\ \E r \in {load_chats(file)} :
           /\ loadRaised' = r.raised
           /\ up' = IF r.raised THEN "down" ELSE "booted"
           /\ CHATS' = r.val
    /\ UNCHANGED <<file, lastWrite, lastAdd, h, job, nUpd, nFire, nWFail>>
    /\ UNCHANGED aux

\* main(): the handlers and the two daily jobs are registered, polling starts.
Main ==
    /\ up = "booted"
    /\ up' = "running"
    /\ UNCHANGED <<CHATS, file, loadRaised, lastWrite, lastAdd, h, job,
                   nUpd, nFire, nWFail>>
    /\ UNCHANGED aux

\* The ways a write may end, while the behaviour's budget of failures lasts.
WriteResults == IF nWFail < MaxWriteFailures THEN {WriteOk} \cup WriteFailures ELSE {WriteOk}

\* Every job that has taken its snapshot learns that another coroutine
\* changed the store.
MarkMutated(jobs, self, changed) ==
    [k \in Jobs |->
        IF changed /\ k # self /\ jobs[k].pc \in {"send", "done"}
        THEN [jobs[k] EXCEPT !.mut = TRUE, !.file0 = NoFile]
        ELSE jobs[k]]

\* ------------------------------------------------------------ the handlers

\* What a handler does from its dispatch to its first await: the store call's
\* outcome o and where the handler is then: "reply" (awaiting reply_text),
\* "fetch" (awaiting the first fetch of build_report), "idle" (returned) or
\* "failed" (the store call's exception left the handler).
Dispatched(o, pc) == [o |-> o, pc |-> IF o.ret = "raise" THEN "failed" ELSE pc]

start_cmd(chats, f, chat, perm, w) ==
    Dispatched(register_chat(chats, f, chat, perm, w), "reply")

chatid_cmd(chats, f, chat, perm, w) ==
    Dispatched(register_chat(chats, f, chat, perm, w), "reply")

\* today_cmd that only builds the report.
today_cmd_report_only(chats, f, chat, perm, w) ==
    Dispatched(Outcome(chats, f, "none", FALSE), "fetch")

today_cmd(chats, f, chat, perm, w) ==
    Dispatched(register_chat(chats, f, chat, perm, w), "fetch")

tomorrow_cmd(chats, f, chat, perm, w) ==
    Dispatched(register_chat(chats, f, chat, perm, w), "fetch")

now_cmd(chats, f, chat, perm, w) == today_cmd(chats, f, chat, perm, w)

stop_cmd(chats, f, chat, perm, w) ==
    Dispatched(unregister_chat(chats, f, chat, perm, w), "reply")

\* on_new_members: me says whether the bot is among the new members.
on_new_members(chats, f, chat, perm, w, me) ==
    IF ~me THEN Dispatched(Outcome(chats, f, "none", FALSE), "idle")
    ELSE LET o == register_chat(chats, f, chat, perm, w)
         IN  Dispatched(o, IF o.ret = "true" THEN "reply" ELSE "idle")

Handle(cmd, chat, perm, w, me) ==
    CASE cmd = "start" -> start_cmd(CHATS, file, chat, perm, w)
      [] cmd = "chatid" -> chatid_cmd(CHATS, file, chat, perm, w)
      [] cmd = "today" -> today_cmd(CHATS, file, chat, perm, w)
      [] cmd = "tomorrow" -> tomorrow_cmd(CHATS, file, chat, perm, w)
      [] cmd = "now" -> now_cmd(CHATS, file, chat, perm, w)
      [] cmd = "stop" -> stop_cmd(CHATS, file, chat, perm, w)
      [] OTHER -> on_new_members(CHATS, file, chat, perm, w, me)

\* The handler coroutine an update ends in: now_cmd only awaits today_cmd.
Running(cmd) == IF cmd = "now" THEN "today" ELSE cmd

IsRegister(cmd) == cmd \in {"start", "chatid", "today", "tomorrow", "now", "new_members"}

\* An update is dispatched to its handler, which runs to its first await.
\* perm, w and me range over the iteration orders, the ways the write may end
\* and whether the bot is among the new members.  A handler that returns
\* without an await (on_new_members) is "returned" until the dispatcher is
\* done with the update.
Update(cmd, chat) ==
    /\ up = "running"
    /\ h.pc = "idle"
    /\ nUpd < MaxUpdates
    /\ nUpd' = nUpd + 1
    /\ \E x \in {[w |-> w, d |-> Handle(cmd, chat, perm, w, me)] :
                    perm \in Orders, w \in WriteResults,
                    me \in (IF cmd = "new_members" THEN BOOLEAN ELSE {TRUE})} :
           /\ CHATS' = x.d.o.chats
           /\ file' = x.d.o.file
           /\ h' = [HIdle EXCEPT !.pc = IF x.d.pc = "idle" THEN "returned" ELSE x.d.pc,
                                 !.cmd = Running(cmd),
                                 !.ret = x.d.o.ret, !.wrote = x.d.o.wrote,
                                 !.wfail = x.d.o.wrote /\ x.w # WriteOk,
                                 !.loc = IF x.d.pc = "fetch" THEN 1 ELSE 0]
           /\ lastWrite' = IF ~x.d.o.wrote THEN lastWrite
                           ELSE IF x.d.o.ret = "raise" THEN "fail" ELSE "ok"
           /\ lastAdd' = IF x.d.o.ret = "none" THEN lastAdd
                         ELSE IF ~IsRegister(cmd) THEN NoAdd
                         ELSE IF lastAdd.id = chat THEN [id |-> chat, n |-> 2]
                         ELSE [id |-> chat, n |-> 1]
           /\ nWFail' = IF x.d.o.wrote /\ x.w # WriteOk THEN nWFail + 1 ELSE nWFail
           /\ job' = MarkMutated(job, "none", x.d.o.chats # CHATS \/ x.d.o.file # file)
    /\ UNCHANGED <<up, loadRaised, nFire>>
    /\ UNCHANGED aux

\* today_cmd / tomorrow_cmd resume from a fetch of their build_report.
HandlerFetched(res) ==
    /\ up = "running"
    /\ h.pc = "fetch"
    /\ \E b \in {build_resume(h.loc, h.lines, res)} :
           h' = [h EXCEPT !.pc = IF b.pc = "raise" THEN "failed"
                                 ELSE IF b.pc = "built" THEN "reply" ELSE "fetch",
                          !.loc = b.loc, !.lines = b.lines, !.text = b.text]
    /\ UNCHANGED <<up, CHATS, file, loadRaised, lastWrite, lastAdd, job,
                   nUpd, nFire, nWFail>>
    /\ UNCHANGED aux

\* The handler's reply_text ends (sent or not), or its return or the exception
\* that left it reaches the dispatcher: the handler is done.
HandlerDone ==
    /\ up = "running"
    /\ h.pc \in {"reply", "returned", "failed"}
    /\ h' = HIdle
    /\ UNCHANGED <<up, CHATS, file, loadRaised, lastWrite, lastAdd, job,
                   nUpd, nFire, nWFail>>
    /\ UNCHANGED aux

\* --------------------------------------------------------------- broadcast

\* The locals of a broadcast call: the snapshot list(CHATS) (snap), the part
\* of it not yet reached (todo), the recipient whose send is awaited (cur, 0
\* when the loop is over), the set dead, the number of send_message calls
\* made per recipient, and exc: an exception left the loop.
Locals(snap, todo, cur, dead, att) ==
    [snap |-> snap, todo |-> todo, cur |-> cur, dead |-> dead, att |-> att,
     exc |-> FALSE]

\* The send to nxt is started, or the loop has ended when nothing is left.
StartSend(b, nxt) ==
    IF b.todo = {} THEN [b EXCEPT !.cur = 0]
    ELSE [b EXCEPT !.cur = nxt, !.todo = b.todo \ {nxt},
                   !.att = [b.att EXCEPT ![nxt] = b.att[nxt] + 1]]

\* broadcast's first step: dead = set(), the snapshot list(CHATS), and the
\* first send_message call (to first, the head of the snapshot).
broadcast_start(chats, first) ==
    StartSend(Locals(chats, chats, 0, {}, NoAttempts), first)

\* The loop leaving at the first failed send.
after_send_abort(b, ok, nxt) ==
    IF ok THEN StartSend(b, nxt)
    ELSE [b EXCEPT !.dead = b.dead \cup {b.cur}, !.todo = {}, !.cur = 0]

\* The loop without its try/except: the send's exception leaves broadcast.
after_send_escalate(b, ok, nxt) ==
    IF ok THEN StartSend(b, nxt) ELSE [b EXCEPT !.cur = 0, !.exc = TRUE]

\* The loop run over the registry as it is now, not over the snapshot.
after_send_live(b, ok, nxt) ==
    LET live == {c \in CHATS : b.att[c] = 0}
    IN  StartSend([b EXCEPT !.dead = IF ok THEN b.dead ELSE b.dead \cup {b.cur},
                            !.todo = live],
                  IF live = {} THEN 0 ELSE CHOOSE c \in live : TRUE)

\* The loop of broadcast resumed from the send to b.cur, which succeeded (ok)
\* or raised: the except clause adds the recipient to dead, and the loop goes
\* on to nxt, the next recipient of the snapshot.
after_send(b, ok, nxt) ==
    StartSend([b EXCEPT !.dead = IF ok THEN b.dead ELSE b.dead \cup {b.cur}], nxt)

\* What the pruning did: the set and the file after it, raised (an
\* unregister_chat call raised, which ends the loop and broadcast), wrote (it
\* called save_chats) and wfail (a write failed).
Pruned(chats, f, raised, wrote, wfail) ==
    [chats |-> chats, file |-> f, raised |-> raised, wrote |-> wrote, wfail |-> wfail]

\* for cid in dead: unregister_chat(cid), the ids taken in the order deadList.
\* The write of the failAt-th call ends as w says, the other writes succeed.
RECURSIVE prune_loop(_, _, _, _, _, _)
prune_loop(chats, f, deadList, perm, failAt, w) ==
    IF deadList = <<>> THEN Pruned(chats, f, FALSE, FALSE, FALSE)
    ELSE LET wi == IF failAt = 1 THEN w ELSE WriteOk
             o == unregister_chat(chats, f, Head(deadList), perm, wi)
         IN  IF o.ret = "raise"
             THEN Pruned(o.chats, o.file, TRUE, TRUE, TRUE)
             ELSE LET r == prune_loop(o.chats, o.file, Tail(deadList), perm,
                                      failAt - 1, w)
                  IN  [r EXCEPT !.wrote = r.wrote \/ o.wrote,
                                !.wfail = r.wfail \/ (o.wrote /\ wi # WriteOk)]

\* broadcast without the pruning.
prune_nothing(chats, f, dead, perm, failAt, w) ==
    Pruned(chats, f, FALSE, FALSE, FALSE)

\* if dead: for cid in dead: unregister_chat(cid)
prune(chats, f, dead, perm, failAt, w) ==
    IF dead = {} THEN Pruned(chats, f, FALSE, FALSE, FALSE)
    ELSE prune_loop(chats, f, IterList(dead, perm), perm, failAt, w)

\* ------------------------------------------------------------ the daily jobs

\* send_today without the guard on an empty CHATS.
send_today_unguarded(chats) == "fetch"

\* send_today, from the job's firing to its first await: "skipped" when CHATS
\* is empty, else the first fetch of build_report(day_index=0).
send_today(chats) == IF chats = {} THEN "skipped" ELSE "fetch"

\* send_tomorrow: the same with build_report(day_index=1).
send_tomorrow(chats) == IF chats = {} THEN "skipped" ELSE "fetch"

\* The timer of job j fires.
Fire(j) ==
    /\ up = "running"
    /\ job[j].pc = "idle"
    /\ nFire < MaxFires
    /\ nFire' = nFire + 1
    /\ \E to \in {IF j = "today" THEN send_today(CHATS) ELSE send_tomorrow(CHATS)} :
       job' = [job EXCEPT ![j] =
                  IF to = "skipped"
                  THEN [JIdle EXCEPT !.pc = "done", !.out = "skipped"]
                  ELSE [JIdle EXCEPT !.pc = "fetch", !.loc = 1, !.fetches = 1]]
    /\ UNCHANGED <<up, CHATS, file, loadRaised, lastWrite, lastAdd, h,
                   nUpd, nWFail>>
    /\ UNCHANGED aux

\* The job's record with broadcast's locals b.
WithLocals(j, b, failed, text, f0) ==
    [job[j] EXCEPT !.loc = 0, !.lines = <<>>, !.text = text,
                   !.snap = b.snap, !.todo = b.todo, !.cur = b.cur,
                   !.dead = b.dead, !.att = b.att,
                   !.failed = failed, !.file0 = f0]

\* The end of a broadcast whose loop is over: the pruning (r is what it did),
\* then the return.
Finish(j, b, failed, text, f0, r) ==
    /\ CHATS' = r.chats
    /\ file' = r.file
    /\ lastWrite' = IF ~r.wrote THEN lastWrite
                    ELSE IF r.raised THEN "fail" ELSE "ok"
    /\ lastAdd' = IF r.wrote THEN NoAdd ELSE lastAdd
    /\ nWFail' = IF r.wfail THEN nWFail + 1 ELSE nWFail
    /\ job' = [MarkMutated(job, j, r.chats # CHATS \/ r.file # file) EXCEPT ![j] =
                  [WithLocals(j, b, failed, text, f0) EXCEPT
                      !.pc = "done", !.wfail = r.wfail,
                      !.out = IF r.raised THEN "write_failed" ELSE "returned"]]

\* broadcast goes on from the locals b: out of the job when an exception left
\* the loop, to its end when the loop is over (b.cur = 0), else to the await
\* of the send to b.cur.
Advance(j, b, failed, text, f0) ==
    IF b.exc
    THEN /\ job' = [job EXCEPT ![j] =
                       [WithLocals(j, b, failed, text, f0) EXCEPT
                           !.pc = "done", !.out = "send_failed"]]
         /\ UNCHANGED <<CHATS, file, lastWrite, lastAdd, nWFail>>
    ELSE IF b.cur = 0
    THEN \E r \in UNION {{prune(CHATS, file, b.dead, perm, failAt, w) :
                             failAt \in (IF w = WriteOk THEN {0}
                                         ELSE 1..Cardinality(b.dead))} :
                         perm \in Orders, w \in WriteResults} :
             Finish(j, b, failed, text, f0, r)
    ELSE /\ job' = [job EXCEPT ![j] =
                       [WithLocals(j, b, failed, text, f0) EXCEPT
                           !.pc = "send",
                           !.late = IF b.cur \in CHATS THEN @ ELSE @ \cup {b.cur}]]
         /\ UNCHANGED <<CHATS, file, lastWrite, lastAdd, nWFail>>

\* The next recipient a loop over the set todo may reach (0: none is left).
NextOf(todo) == IF todo = {} THEN {0} ELSE todo

\* Job j resumes from a fetch of its build_report.  After the last fetch the
\* report is returned and broadcast runs to its first send within the same
\* step (or to its end, when CHATS is empty by now).
JobFetched(j, res) ==
    /\ up = "running"
    /\ job[j].pc = "fetch"
    /\ \E b \in {build_resume(job[j].loc, job[j].lines, res)} :
           CASE b.pc = "raise" ->
                  /\ job' = [job EXCEPT ![j] =
                                [@ EXCEPT !.pc = "done", !.loc = 0, !.lines = <<>>,
                                          !.out = "build_failed"]]
                  /\ UNCHANGED <<CHATS, file, lastWrite, lastAdd, nWFail>>
              [] b.pc = "fetch" ->
                  /\ job' = [job EXCEPT ![j] =
                                [@ EXCEPT !.loc = b.loc, !.lines = b.lines,
                                          !.fetches = @ + 1]]
                  /\ UNCHANGED <<CHATS, file, lastWrite, lastAdd, nWFail>>
              [] OTHER ->
                  \E s \in {broadcast_start(CHATS, first) : first \in NextOf(CHATS)} :
                     Advance(j, s, {}, b.text, file)
    /\ UNCHANGED <<up, loadRaised, h, nUpd, nFire>>
    /\ UNCHANGED aux

\* Job j resumes from its await of send_message(job[j].cur), which succeeded
\* (ok) or raised.
JobSent(j, ok) ==
    /\ up = "running"
    /\ job[j].pc = "send"
    /\ \E b \in {after_send(Locals(job[j].snap, job[j].todo, job[j].cur,
                                   job[j].dead, job[j].att), ok, nxt) :
                    nxt \in NextOf(job[j].todo)} :
           Advance(j, b, IF ok THEN job[j].failed ELSE job[j].failed \cup {job[j].cur},
                   job[j].text, job[j].file0)
    /\ UNCHANGED <<up, loadRaised, h, nUpd, nFire>>
    /\ UNCHANGED aux

\* The job's coroutine has ended (returned or raised); the timer is idle again.
JobDone(j) ==
    /\ up = "running"
    /\ job[j].pc = "done"
    /\ job' = [job EXCEPT ![j] = JIdle]
    /\ UNCHANGED <<up, CHATS, file, loadRaised, lastWrite, lastAdd, h,
                   nUpd, nFire, nWFail>>
    /\ UNCHANGED aux

Next ==
    \/ Import
    \/ Main
    \/ \E cmd \in Commands, chat \in ChatIds : Update(cmd, chat)
    \/ \E res \in FetchResults : HandlerFetched(res)
    \/ HandlerDone
    \/ \E j \in Jobs : Fire(j)
    \/ \E j \in Jobs, res \in FetchResults : JobFetched(j, res)
    \/ \E j \in Jobs, ok \in BOOLEAN : JobSent(j, ok)
    \/ \E j \in Jobs : JobDone(j)

Spec == Init /\ [][Next]_vars

\* ------------------------------------------------------------------ claims

\* A broadcast of job j has ended (returned or raised).
BroadcastEnded(j) ==
    job[j].pc = "done" /\ job[j].out \in {"returned", "write_failed", "send_failed"}

\* C1: when a broadcast has returned and no other coroutine changed the store
\* since its snapshot S, CHATS is S without the recipients whose send failed
\* (F), and chats.json loads to that same set S \ F, given that it loaded to S
\* when broadcast was called or that F is not empty.
C1_BroadcastPrunes ==
    \A j \in Jobs :
        (job[j].pc = "done" /\ job[j].out = "returned" /\ ~job[j].mut) =>
            /\ CHATS = job[j].snap \ job[j].failed
            /\ (job[j].failed # {} \/ load_chats(job[j].file0).val = job[j].snap)
                  => load_chats(file).val = job[j].snap \ job[j].failed

\* C1's case: a snapshot of three recipients, the send to one of them failed,
\* and the two others are what is left in memory and in the record.
C1_Witness ==
    \E j \in Jobs :
        /\ job[j].pc = "done" /\ job[j].out = "returned" /\ ~job[j].mut
        /\ Cardinality(job[j].snap) = 3
        /\ Cardinality(job[j].failed) = 1
        /\ Cardinality(CHATS) = 2
        /\ load_chats(file).val = CHATS

\* C2: in a broadcast, a recipient of the snapshot has at most one send
\* attempt at any time, a recipient outside it has none, and when the
\* broadcast has ended every recipient of the snapshot has had exactly one.
C2_OneAttemptEach ==
    \A j \in Jobs : \A c \in ChatIds :
        /\ job[j].att[c] <= 1
        /\ c \notin job[j].snap => job[j].att[c] = 0
        /\ job[j].pc = "send" =>
              (job[j].att[c] = 1 <=> c \in job[j].snap \ job[j].todo)
        /\ BroadcastEnded(j) => (job[j].att[c] = 1 <=> c \in job[j].snap)

\* C2's case: the sends to two recipients failed and the third recipient of
\* the snapshot was attempted all the same.
C2_Witness ==
    \E j \in Jobs :
        /\ BroadcastEnded(j)
        /\ Cardinality(job[j].snap) = 3
        /\ Cardinality(job[j].failed) = 2
        /\ \A c \in job[j].snap : job[j].att[c] = 1

\* C3: a broadcast whose writes succeed returns normally whatever sends
\* failed, its set dead is the set of the recipients whose send failed, and
\* when it returns none of them is in CHATS.
C3_FailuresArePruned ==
    /\ [](\A j \in Jobs :
             (BroadcastEnded(j) /\ ~job[j].wfail) =>
                 job[j].out = "returned" /\ job[j].dead = job[j].failed)
    /\ [][\A j \in Jobs :
             (job[j].pc # "done" /\ job'[j].pc = "done" /\ job'[j].out = "returned")
                 => CHATS' \cap job'[j].failed = {}]_vars

\* C3's case: every send of a broadcast to three recipients failed, the
\* broadcast returned and the registry is empty.
C3_Witness ==
    \E j \in Jobs :
        /\ job[j].pc = "done" /\ job[j].out = "returned"
        /\ Cardinality(job[j].snap) = 3
        /\ job[j].failed = job[j].snap
        /\ CHATS = {}

\* The step is the dispatch of an update to the handler of cmd in chat.
Dispatch(cmd, chat) ==
    h.pc = "idle" /\ h'.pc # "idle" /\ h'.cmd = Running(cmd) /\ Update(cmd, chat)

\* The step is one in which a handler calls register_chat(chat) /
\* unregister_chat(chat).
RegisterCalled(chat) ==
    \E cmd \in Commands : IsRegister(cmd) /\ h'.ret # "none" /\ Dispatch(cmd, chat)

UnregisterCalled(chat) == Dispatch("stop", chat)

\* The number of elements of the list t that are the integer n.
Occurrences(t, n) == Cardinality({i \in 1..Len(t) : t[i] = Num(n)})

\* C4: register_chat(id) returns true only when id was not in CHATS and false
\* only when it was, and leaves CHATS with id added and nothing else changed;
\* after a true, the record lists id once; a call that follows a
\* register_chat(id) returns false, calls save_chats not at all and leaves
\* CHATS and chats.json as they were.
C4_RegisterIdempotent ==
    [][\A chat \in ChatIds :
          RegisterCalled(chat) =>
              /\ h'.ret = "true" => chat \notin CHATS
              /\ h'.ret = "false" => chat \in CHATS
              /\ CHATS' = CHATS \cup {chat}
              /\ h'.ret = "true" => Occurrences(file'.text, chat) = 1
              /\ lastAdd.id = chat =>
                    /\ h'.ret = "false"
                    /\ ~h'.wrote
                    /\ CHATS' = CHATS
                    /\ file' = file]_vars

\* C4's case: register_chat(id) returned true and the call after it, again
\* register_chat(id), returned false.
C4_Witness ==
    /\ lastAdd.n = 2
    /\ lastAdd.id \in CHATS
    /\ h.ret = "false"
    /\ lastWrite = "ok"
    /\ Occurrences(file.text, lastAdd.id) = 1

\* C5: unregister_chat(id) returns true only when id was in CHATS, and then
\* CHATS and the set chats.json loads to are the old CHATS without id; for an
\* id in CHATS it returns true unless the write raises; for an id not in CHATS
\* it returns false and leaves CHATS and chats.json as they were.
C5_UnregisterFrame ==
    [][\A chat \in ChatIds :
          UnregisterCalled(chat) =>
              /\ h'.ret = "true" =>
                    /\ chat \in CHATS
                    /\ CHATS' = CHATS \ {chat}
                    /\ load_chats(file').val = CHATS \ {chat}
              /\ chat \in CHATS => h'.ret \in {"true", "raise"}
              /\ chat \notin CHATS =>
                    /\ h'.ret = "false"
                    /\ ~h'.wrote
                    /\ CHATS' = CHATS
                    /\ file' = file]_vars

\* C5's case: unregister_chat returned false on a registry that is not empty.
C5_Witness ==
    /\ h.cmd = "stop"
    /\ h.ret = "false"
    /\ CHATS # {}
    /\ lastWrite = "none"

\* Whether the list of tokens t is a JSON array of integer literals in
\* strictly ascending order.
IsSortedArray(t) ==
    /\ json_loads(t).ok
    /\ json_loads(t).kind = "list"
    /\ LET items == json_loads(t).items
       IN  /\ \A i \in 1..Len(items) : items[i].k = "num"
           /\ \A i, j \in 1..Len(items) : i < j => items[i].v < items[j].v

\* C6: once a save_chats(S) call of this process has succeeded, load_chats of
\* chats.json returns S without raising (S is CHATS, which changes only with
\* a save), and the record is the JSON array of the members of S in
\* ascending order, whatever order the set was iterated in.
C6_PersistRoundTrip ==
    lastWrite = "ok" =>
        /\ load_chats(file) = [raised |-> FALSE, val |-> CHATS]
        /\ IsSortedArray(file.text)
        /\ file = FileOf(json_dumps(Ascending(CHATS)))

\* C6's case: a set of three ids, a negative one among them, was saved.
C6_Witness ==
    /\ lastWrite = "ok"
    /\ CHATS = ChatIds
    /\ load_chats(file).val = ChatIds
    /\ file.text[2] = Num(-1)

\* The record f is missing, is no JSON, is JSON that is no array, or is an
\* array with an element that int() rejects.
BadRecord(f) ==
    \/ ~f.exists
    \/ ~json_loads(f.text).ok
    \/ json_loads(f.text).kind # "list"
    \/ \E i \in 1..Len(json_loads(f.text).items) :
          json_loads(f.text).items[i].k \in {"word", "null"}

\* C7: the import-time load_chats() never raises, and right after it (before
\* main() runs) CHATS is empty when the record is bad.
C7_LoadNeverRaises ==
    /\ ~loadRaised
    /\ (up = "booted" /\ BadRecord(file)) => CHATS = {}

\* C7's case: the process has loaded an array whose second element is null.
C7_Witness ==
    /\ up = "booted"
    /\ ~loadRaised
    /\ json_loads(file.text).kind = "list"
    /\ \E i \in 1..Len(file.text) : file.text[i] = NULL
    /\ CHATS = {}

\* C8: a job that fires while CHATS is empty ends at once: no fetch_weather
\* call, no send_message call, CHATS and chats.json as they were.
C8_EmptySkips ==
    /\ [](\A j \in Jobs :
             job[j].out = "skipped" =>
                 /\ job[j].pc = "done"
                 /\ job[j].fetches = 0
                 /\ job[j].att = NoAttempts)
    /\ [][\A j \in Jobs :
             (CHATS = {} /\ job[j].pc = "idle" /\ job'[j].pc # "idle") =>
                 /\ job'[j].out = "skipped"
                 /\ job'[j].fetches = 0
                 /\ job'[j].att = NoAttempts
                 /\ CHATS' = CHATS
                 /\ file' = file]_vars

\* C8's case: the today job fired on an empty registry and was skipped.
C8_Witness ==
    /\ job["today"].pc = "done"
    /\ job["today"].out = "skipped"
    /\ job["today"].fetches = 0
    /\ CHATS = {}

\* C9: when a fetch of a job's build_report fails (for the first location or
\* a later one) the job ends there with no report text, no send_message call
\* and CHATS and chats.json as they were; a handler's build_report that
\* fails leaves the handler with no text.
C9_BuildFailsWhole ==
    /\ [](\A j \in Jobs :
             job[j].out = "build_failed" =>
                 /\ job[j].pc = "done"
                 /\ job[j].text = <<>>
                 /\ job[j].att = NoAttempts
                 /\ job[j].snap = {})
    /\ [][\A j \in Jobs : \A res \in FetchResults \ {"ok"} :
             (job[j].pc = "fetch" /\ job'[j] # job[j] /\ JobFetched(j, res)) =>
                 /\ job'[j].out = "build_failed"
                 /\ job'[j].text = <<>>
                 /\ CHATS' = CHATS
                 /\ file' = file]_vars
    /\ [][\A res \in FetchResults \ {"ok"} :
             (h.pc = "fetch" /\ h' # h /\ HandlerFetched(res)) =>
                 h'.pc = "failed" /\ h'.text = <<>>]_vars

\* C9's case: the fetch for the second location failed and the job ended
\* without a text or a send.
C9_Witness ==
    \E j \in Jobs :
        /\ job[j].out = "build_failed"
        /\ job[j].fetches = NumLocations
        /\ job[j].text = <<>>
        /\ job[j].att = NoAttempts
        /\ CHATS # {}

\* C10: when a write of chats.json fails in the register_chat or
\* unregister_chat call of a handler, the call ends with the exception (it
\* returns neither true nor false) and the exception leaves the handler; when
\* it fails in the pruning of a broadcast, the exception leaves broadcast.
C10_WriteFailureSurfaces ==
    /\ h.wfail => h.ret = "raise" /\ h.pc = "failed"
    /\ \A j \in Jobs : job[j].wfail => job[j].pc = "done" /\ job[j].out = "write_failed"

\* C10's case: a write failed in the pruning of a broadcast, which ended
\* with the exception.
C10_Witness ==
    \E j \in Jobs :
        /\ job[j].wfail
        /\ job[j].out = "write_failed"
        /\ job[j].failed # {}
        /\ lastWrite = "fail"

\* ------------------------------------------- write_text on the file system

\* WriteSpec looks inside the write_text call of save_chats, which Spec takes
\* as one step: open(CHATS_FILE, "w") truncates the file, the text reaches it
\* in one write or in several, and the file is closed.  Other processes (a
\* second instance of the bot running load_chats, a backup) may read
\* chats.json at any of these moments.

\* The process is running with a registry that agrees with its record.
WInit ==
    /\ up = "running"
    /\ CHATS \in SUBSET ChatIds
    /\ file \in {FileOf(json_dumps(Ascending(CHATS)))}
                  \cup (IF CHATS = {} THEN {NoFile} ELSE {})
    /\ loadRaised = FALSE
    /\ lastWrite = "none"
    /\ lastAdd = NoAdd
    /\ h = HIdle
    /\ job = [j \in Jobs |-> JIdle]
    /\ nUpd = 0
    /\ nFire = 0
    /\ nWFail = 0
    /\ wr = WrIdle
    /\ sched = SchedOff
    /\ rep = RepOff

\* What WriteSpec's steps leave alone.
WFrame == UNCHANGED <<up, loadRaised, lastWrite, lastAdd, h, job, nFire, nWFail,
                      sched, rep>>

\* register_chat(chat) (reg) or unregister_chat(chat) changes CHATS and calls
\* save_chats, whose write_text opens the file for writing: the file is now
\* empty.  o is what the whole call does when its write succeeds.
WCall(chat, reg) ==
    /\ wr.pc = "idle"
    /\ nUpd < MaxUpdates
    /\ nUpd' = nUpd + 1
    /\ \E o \in {IF reg THEN register_chat(CHATS, file, chat, perm, WriteOk)
                        ELSE unregister_chat(CHATS, file, chat, perm, WriteOk) :
                    perm \in Orders} :
           /\ o.wrote
           /\ CHATS' = o.chats
           /\ file' = FileOf(<<>>)
           /\ wr' = [pc |-> "opened", old |-> file, text |-> o.file.text,
                     seen |-> NotRead]
    /\ WFrame

\* A write system call puts the text in the file up to its n-th token.
WFlush(n) ==
    /\ wr.pc = "opened"
    /\ n \in (Len(file.text) + 1)..Len(wr.text)
    /\ file' = FileOf(SubSeq(wr.text, 1, n))
    /\ wr' = [wr EXCEPT !.pc = IF n = Len(wr.text) THEN "flushed" ELSE "opened"]
    /\ UNCHANGED <<CHATS, nUpd>>
    /\ WFrame

\* The file is closed and save_chats returns.
WClose ==
    /\ wr.pc = "flushed"
    /\ wr' = WrIdle
    /\ UNCHANGED <<CHATS, file, nUpd>>
    /\ WFrame

\* Another process reads chats.json while the write_text call is in progress.
WRead ==
    /\ wr.pc # "idle"
    /\ wr.seen = NotRead
    /\ wr' = [wr EXCEPT !.seen = file]
    /\ UNCHANGED <<CHATS, file, nUpd>>
    /\ WFrame

WNext ==
    \/ \E chat \in ChatIds, reg \in BOOLEAN : WCall(chat, reg)
    \/ \E n \in 1..(2 * Cardinality(ChatIds) + 1) : WFlush(n)
    \/ WClose
    \/ WRead

WriteSpec == WInit /\ [][WNext]_vars

\* C11: what a reader of chats.json gets while a save_chats call is in
\* progress is the whole old record or the whole new one.
C11_AtomicReplace ==
    (wr.pc # "idle" /\ wr.seen # NotRead) => wr.seen \in {wr.old, FileOf(wr.text)}

\* ------------------------------------------------------- the daily timers

\* SchedSpec follows the clock, the process's starts and stops and the two
\* timers main() registers with run_daily, and takes an execution of a job as
\* two phases: build_report ("fetch"), then broadcast ("send").

FireHour(j) == IF j = "today" THEN TodayHour ELSE TomorrowHour

\* The job callback of j is called: an execution that returns at once
\* (CHATS is empty) or one that goes into build_report.
Started(s, j, d, chats) ==
    LET to == IF j = "today" THEN send_today(chats) ELSE send_tomorrow(chats)
    IN  [s EXCEPT !.ran[j][d] = @ + 1,
                  !.runs[j] = IF to = "skipped" THEN @ ELSE Append(@, to)]

\* The timers started for every due fire, an execution in progress or not.
run_daily_overlapping(s, j, d, chats) == Started(s, j, d, chats)

\* The timer of j comes due on day d in a running process.  run_daily is
\* called with no job_kwargs, so the scheduler keeps to one instance of a job
\* at a time: a fire that comes due while an execution of j is in progress is
\* dropped.
run_daily(s, j, d, chats) ==
    IF s.runs[j] # <<>> THEN [s EXCEPT !.skipped[j] = @ \cup {d}]
    ELSE Started(s, j, d, chats)

\* The jobs whose instant of the day of t has passed at t with no execution
\* started that day.
Overdue(s, t) == {j \in Jobs : FireHour(j) <= HourOf(t) /\ s.ran[j][DayOf(t)] = 0}

\* main() that runs at once the jobs whose instant of the day has passed.
main_catching_up(s, chats) ==
    [s EXCEPT !.ran = [j \in Jobs |->
                          IF j \in Overdue(s, s.now)
                          THEN [s.ran[j] EXCEPT ![DayOf(s.now)] = 1] ELSE s.ran[j]],
              !.runs = [j \in Jobs |->
                          IF j \in Overdue(s, s.now) /\ chats # {}
                          THEN Append(s.runs[j], "fetch") ELSE s.runs[j]]]

\* main(): the two timers are registered for their next instants; no job is
\* run and nothing is known of the instants that passed before.
main(s, chats) == s

SInit ==
    /\ up = "down"
    /\ CHATS \in {{}, {1}}
    /\ file = FileOf(json_dumps(Ascending(CHATS)))
    /\ loadRaised = FALSE
    /\ lastWrite = "none"
    /\ lastAdd = NoAdd
    /\ h = HIdle
    /\ job = [j \in Jobs |-> JIdle]
    /\ nUpd = 0
    /\ nFire = 0
    /\ nWFail = 0
    /\ wr = WrIdle
    /\ sched = SchedOff
    /\ rep = RepOff

SFrame == UNCHANGED <<CHATS, file, loadRaised, lastWrite, lastAdd, h, job,
                      nUpd, nFire, nWFail, wr, rep>>

\* The process starts: the module is imported and main() runs.
SBoot ==
    /\ up = "down"
    /\ up' = "running"
    /\ sched' = main(sched, CHATS)
    /\ SFrame

\* The process stops or dies; its executions in progress go with it.
SDown ==
    /\ up = "running"
    /\ up' = "down"
    /\ sched' = [sched EXCEPT !.runs = [j \in Jobs |-> <<>>]]
    /\ SFrame

\* An hour passes.  At the instant of a job the scheduler of a running
\* process fires its timer; with the process down the instant passes unseen.
STick ==
    /\ sched.now < 24 * MaxDays - 1
    /\ LET t == sched.now + 1
           due == {j \in Jobs : FireHour(j) = HourOf(t)}
           s1 == [sched EXCEPT !.now = t]
       IN  sched' =
             IF due = {} THEN s1
             ELSE LET j == CHOOSE x \in due : TRUE
                  IN  IF up = "running" THEN run_daily(s1, j, DayOf(t), CHATS)
                      ELSE [s1 EXCEPT !.missed[j] = @ \cup {DayOf(t)}]
    /\ UNCHANGED up
    /\ SFrame

\* The i-th execution in progress of job j goes on: from build_report to
\* broadcast, or to its end (the build failed, or broadcast is over).
SStep(j, i, ends) ==
    /\ up = "running"
    /\ i \in 1..Len(sched.runs[j])
    /\ LET r == sched.runs[j]
           rest == SubSeq(r, 1, i - 1) \o SubSeq(r, i + 1, Len(r))
       IN  sched' = [sched EXCEPT !.runs[j] =
                        IF ends \/ r[i] = "send" THEN rest
                        ELSE [r EXCEPT ![i] = "send"]]
    /\ UNCHANGED up
    /\ SFrame

SNext ==
    \/ SBoot
    \/ SDown
    \/ STick
    \/ \E j \in Jobs, i \in 1..MaxDays, ends \in BOOLEAN : SStep(j, i, ends)

SchedSpec == SInit /\ [][SNext]_vars

C13_NoCatchUp ==
    /\ [](\A j \in Jobs : \A d \in Days :
             /\ sched.ran[j][d] <= 1
             /\ d \in sched.missed[j] => sched.ran[j][d] = 0)
    /\ [][\A j \in Jobs : \A d \in Days :
             sched'.ran[j][d] > sched.ran[j][d] =>
                 /\ up = "running"
                 /\ sched'.now = sched.now + 1
                 /\ HourOf(sched'.now) = FireHour(j)
                 /\ DayOf(sched'.now) = d]_vars

\* C13's case: the process was down at 06:00 of day 1 and running at 19:00;
\* at the end of the day the tomorrow job has run and the today job has not.
C13_Witness ==
    /\ up = "running"
    /\ 1 \in sched.missed["today"]
    /\ sched.now = 23
    /\ sched.ran["today"][1] = 0
    /\ sched.ran["tomorrow"][1] = 1

\* ------------------------------------------------------------ the commands

\* The commands that ask for a report or for the chat's id.
Queries == {"today", "tomorrow", "now", "chatid"}

\* C14 as stated: a command that asks for a report or for the id leaves
\* CHATS and chats.json as they were.
C14_QueriesChangeNothing ==
    [][\A chat \in ChatIds : \A cmd \in Queries :
          Dispatch(cmd, chat) => CHATS' = CHATS /\ file' = file]_vars

\* C14, amended: /start calls register_chat and /stop unregister_chat; the
\* commands that ask for a report or for the id call register_chat for the
\* current chat first, then go on to build_report (the report commands) or to
\* the reply: they leave CHATS and chats.json as they were only for a chat
\* that is registered, and add a chat that is not.
C14_CommandsRegister ==
    [][\A chat \in ChatIds :
          /\ \A cmd \in Queries \cup {"start"} :
                Dispatch(cmd, chat) =>
                    /\ h'.ret # "none"
                    /\ CHATS' = CHATS \cup {chat}
                    /\ chat \in CHATS => file' = file /\ ~h'.wrote
                    /\ (chat \notin CHATS /\ ~h'.wfail) =>
                          /\ h'.ret = "true"
                          /\ load_chats(file').val = CHATS \cup {chat}
                    /\ h'.ret # "raise" =>
                          h'.pc = IF cmd \in {"chatid", "start"} THEN "reply" ELSE "fetch"
          /\ Dispatch("stop", chat) =>
                /\ h'.ret # "none"
                /\ CHATS' = CHATS \ {chat}
                /\ h'.ret # "raise" => h'.pc = "reply"]_vars

\* C14's case: /today from a chat that was not registered: the chat is
\* registered and recorded, and the handler awaits the first fetch.
C14_Witness ==
    /\ h.cmd = "today"
    /\ h.pc = "fetch"
    /\ h.ret = "true"
    /\ lastWrite = "ok"
    /\ lastAdd.id \in CHATS
    /\ Occurrences(file.text, lastAdd.id) = 1

\* --------------------------------------------- broadcast and the commands

\* The step is one in which job j resumes from a send.
SendResumed(j) ==
    job[j].pc = "send" /\ (job'[j].att # job[j].att \/ job'[j].pc = "done")

\* C15: a broadcast sends to the recipients of the snapshot it took when it
\* was called and to no other, whatever the commands do to CHATS meanwhile:
\* a chat outside the snapshot has no send attempt, also when it is in CHATS
\* by now; resumed from a send, the loop goes on to a recipient of the
\* snapshot not yet reached, in CHATS or not, and ends only when none is left.
C15_SnapshotDelivery ==
    /\ [](\A j \in Jobs : \A c \in ChatIds :
             /\ c \notin job[j].snap => job[j].att[c] = 0
             /\ job[j].late \subseteq job[j].snap
             /\ c \in job[j].late => job[j].att[c] = 1)
    /\ [][\A j \in Jobs :
             SendResumed(j) =>
                 /\ job'[j].snap = job[j].snap
                 /\ job[j].todo = {} => job'[j].pc = "done"
                 /\ job[j].todo # {} =>
                       /\ job'[j].pc = "send"
                       /\ job'[j].cur \in job[j].todo
                       /\ job'[j].att[job'[j].cur] = 1]_vars

\* C15's case: during the loop one chat registered and a recipient of the
\* snapshot unregistered before its turn; the broadcast has returned, having
\* sent to the second and not to the first.
C15_Witness ==
    \E j \in Jobs :
        /\ job[j].pc = "done" /\ job[j].out = "returned"
        /\ \E c \in CHATS \ job[j].snap : job[j].att[c] = 0
        /\ \E d \in job[j].late : d \notin CHATS /\ d \notin job[j].failed /\ job[j].att[d] = 1

\* The step is the return of the broadcast of job j.
BroadcastReturns(j) ==
    job[j].pc # "done" /\ job'[j].pc = "done" /\ job'[j].out = "returned"

\* C16: at the moment a broadcast returns, no recipient whose send failed in
\* it is in CHATS or in the set chats.json loads to, whatever commands ran
\* during its sends, and the return adds no chat to CHATS.
C16_FailedAreGone ==
    [][\A j \in Jobs :
          BroadcastReturns(j) =>
              /\ CHATS' \cap job'[j].failed = {}
              /\ load_chats(file').val \cap job'[j].failed = {}
              /\ CHATS' \subseteq CHATS]_vars

\* ------------------------------------------------- one location's block

\* ReportSpec follows what build_report does with the data of one location:
\* the three get_hour_forecast calls, in the order of the code.

\* The hour markers of build_report, in the order of its calls, and an hour
\* that is none of them.
Markers == <<"08:00", "14:00", "20:00">>
Hours == {Markers[n] : n \in 1..Len(Markers)} \cup {"02:00"}

\* The dates the provider's series may bear.
Dates == 1..ForecastDays

\* A record of the hourly series: the timestamp "<d>T<hr>" of hourly["time"]
\* and, at the same index of the other arrays, the values; ok says whether
\* the temperature is a number (null is what the provider gives for a value
\* it does not have).
Record(d, hr, ok) == [d |-> d, hr |-> hr, ok |-> ok]
Records == {Record(d, hr, ok) : d \in Dates, hr \in Hours, ok \in BOOLEAN}

\* All series of at most MaxTimes records.
Series == UNION {[1..n -> Records] : n \in 0..MaxTimes}

\* The loop of _target_date_from_hourly_times: the distinct dates in the
\* order they appear, left as soon as there are two.
RECURSIVE dates_loop(_, _)
dates_loop(times, dates) ==
    IF times = <<>> THEN dates
    ELSE LET d == Head(times).d
         IN  IF dates = <<>> \/ dates[Len(dates)] # d
             THEN IF Len(dates) + 1 >= 2 THEN Append(dates, d)
                  ELSE dates_loop(Tail(times), Append(dates, d))
             ELSE dates_loop(Tail(times), dates)

\* The function with dates[day_index] for its result.
target_date_by_index(times, day_index) ==
    LET dates == dates_loop(times, <<>>)
    IN  IF Len(dates) < day_index + 1 THEN [raised |-> TRUE, val |-> 0]
        ELSE [raised |-> FALSE, val |-> dates[day_index + 1]]

\* _target_date_from_hourly_times(times, day_index); raised: dates[0] of an
\* empty list (IndexError).
target_date_from_hourly_times(times, day_index) ==
    LET dates == dates_loop(times, <<>>)
    IN  IF dates = <<>> THEN [raised |-> TRUE, val |-> 0]
        ELSE IF day_index = 0 THEN [raised |-> FALSE, val |-> dates[1]]
        ELSE [raised |-> FALSE,
              val |-> IF Len(dates) > 1 THEN dates[2] ELSE dates[1]]

\* What get_hour_forecast returns: the text rendered from the record at index
\* idx, or the text "нет данных"; or it raises.
Rendered(i) == [raised |-> FALSE, kind |-> "data", idx |-> i]
NoData == [raised |-> FALSE, kind |-> "nodata", idx |-> 0]
Raised == [raised |-> TRUE, kind |-> "none", idx |-> 0]

\* for i, t in enumerate(times): if t == target_time: ... return; from index i.
RECURSIVE scan(_, _, _, _)
scan(times, i, d, hr) ==
    IF i > Len(times) THEN NoData
    ELSE IF times[i].d = d /\ times[i].hr = hr
         THEN IF times[i].ok THEN Rendered(i) ELSE Raised
         ELSE scan(times, i + 1, d, hr)

\* get_hour_forecast that looks the timestamp up and fails when it is absent.
get_hour_forecast_strict(times, day_index, hour) ==
    LET t == target_date_from_hourly_times(times, day_index)
        r == IF t.raised THEN Raised ELSE scan(times, 1, t.val, hour)
    IN  IF r = NoData THEN Raised ELSE r

\* get_hour_forecast(data, day_index, hour), data["hourly"] being times;
\* f"{temp:.0f}" raises TypeError for a null temperature.
get_hour_forecast(times, day_index, hour) ==
    LET t == target_date_from_hourly_times(times, day_index)
    IN  IF t.raised THEN Raised ELSE scan(times, 1, t.val, hour)

RInit ==
    /\ up = "running"
    /\ CHATS = {}
    /\ file = NoFile
    /\ loadRaised = FALSE
    /\ lastWrite = "none"
    /\ lastAdd = NoAdd
    /\ h = HIdle
    /\ job = [j \in Jobs |-> JIdle]
    /\ nUpd = 0
    /\ nFire = 0
    /\ nWFail = 0
    /\ wr = WrIdle
    /\ sched = SchedOff
    /\ rep \in {[RepOff EXCEPT !.pc = "data", !.times = t, !.day_index = k] :
                   t \in Series, k \in {0, 1}}

RFrame == UNCHANGED <<up, CHATS, file, loadRaised, lastWrite, lastAdd, h, job,
                      nUpd, nFire, nWFail, wr, sched>>

\* The target date of the series is resolved.
RTarget ==
    /\ rep.pc = "data"
    /\ \E t \in {target_date_from_hourly_times(rep.times, rep.day_index)} :
           rep' = [rep EXCEPT !.target = t,
                              !.pc = IF t.raised THEN "failed" ELSE "slots"]
    /\ RFrame

\* build_report calls get_hour_forecast for the next marker.
RSlot ==
    /\ rep.pc = "slots"
    /\ \E r \in {get_hour_forecast(rep.times, rep.day_index,
                                   Markers[Len(rep.slots) + 1])} :
           rep' = [rep EXCEPT !.slots = Append(@, r),
                              !.pc = IF r.raised THEN "failed"
                                     ELSE IF Len(rep.slots) + 1 = Len(Markers)
                                     THEN "done" ELSE "slots"]
    /\ RFrame

RNext == RTarget \/ RSlot

ReportSpec == RInit /\ [][RNext]_vars

\* The indexes of the records of times that bear the date d and the hour hr.
Matches(times, d, hr) == {i \in 1..Len(times) : times[i].d = d /\ times[i].hr = hr}

\* The indexes of the records whose date is not that of the first record.
OtherDate(times) == {i \in 1..Len(times) : times[i].d # times[1].d}

Least(S) == CHOOSE i \in S : \A k \in S : i <= k

\* The target date as C17 states it.
StatedTarget(times, day_index) ==
    IF day_index = 0 \/ OtherDate(times) = {} THEN times[1].d
    ELSE times[Least(OtherDate(times))].d

\* C17: for a series that is not empty the target date is resolved without
\* an exception; it is the date of the first record for day_index 0 and, for
\* day_index 1, the first date of the series that differs from that one, or
\* the first date when there is none; on a series of a single date the slots
\* for day_index 1 are those for day_index 0.
C17_TargetDate ==
    (rep.pc \in {"slots", "done", "failed"} /\ rep.times # <<>>) =>
        /\ ~rep.target.raised
        /\ rep.target.val = StatedTarget(rep.times, rep.day_index)
        /\ OtherDate(rep.times) = {} =>
              \A n \in 1..Len(rep.slots) :
                  rep.slots[n] = get_hour_forecast(rep.times, 0, Markers[n])

\* C17's case: day_index 1 on a series of one date; the three slots are
\* rendered from that date, one of them from a record.
C17_Witness ==
    /\ rep.pc = "done"
    /\ rep.day_index = 1
    /\ Len(rep.times) >= 2
    /\ OtherDate(rep.times) = {}
    /\ rep.target.val = rep.times[1].d
    /\ \E n \in 1..Len(rep.slots) : rep.slots[n].kind = "data"

\* C18: each slot that has been rendered is rendered from the first record
\* whose timestamp is the target date plus the slot's marker, and is the
\* no-data placeholder when no record has that timestamp; a slot without a
\* record never fails the build (a build fails only at a slot whose record
\* has no temperature), and a build that has ended without failure holds all
\* three slots.
C18_SlotRendering ==
    (rep.pc \in {"slots", "done", "failed"} /\ ~rep.target.raised) =>
        /\ \A n \in 1..Len(rep.slots) :
               LET M == Matches(rep.times, rep.target.val, Markers[n])
               IN  /\ M = {} => rep.slots[n] = NoData
                   /\ M # {} => rep.slots[n] =
                          IF rep.times[Least(M)].ok THEN Rendered(Least(M))
                          ELSE Raised
        /\ rep.pc = "failed" =>
               /\ rep.slots # <<>>
               /\ \A n \in 1..Len(rep.slots) :
                      rep.slots[n].raised <=> n = Len(rep.slots)
        /\ rep.pc = "done" =>
               /\ Len(rep.slots) = Len(Markers)
               /\ \A n \in 1..Len(rep.slots) : ~rep.slots[n].raised

\* C18's case: a build has ended with the morning slot as the placeholder and
\* the two other slots rendered from two records.
C18_Witness ==
    /\ rep.pc = "done"
    /\ rep.slots[1] = NoData
    /\ rep.slots[2].kind = "data"
    /\ rep.slots[3].kind = "data"
    /\ rep.slots[2].idx # rep.slots[3].idx

\* ------------------------------------------------ the record and the set

\* The step is the return of a broadcast that pruned c.
PrunedNow(c) ==
    \E j \in Jobs : job[j].pc # "done" /\ job'[j].pc = "done" /\ c \in job'[j].dead

\* C19: as long as no write has failed, once CHATS is loaded the set that
\* chats.json loads to is CHATS in every state, whatever the record was at the
\* start and however commands and broadcasts interleave; and an id leaves
\* CHATS only in an unregister_chat of that id (by /stop or by a broadcast's
\* pruning) and enters it only in a register_chat of that id: no write of
\* another operation undoes a registration or a removal.
C19_RecordIsRegistry ==
    /\ []((nWFail = 0 /\ up # "down") => load_chats(file).val = CHATS)
    /\ [][(nWFail' = 0 /\ up = "running") =>
             \A c \in ChatIds :
                 /\ (c \in CHATS /\ c \notin CHATS') =>
                        (PrunedNow(c) \/ UnregisterCalled(c))
                 /\ (c \notin CHATS /\ c \in CHATS') => RegisterCalled(c)]_vars

\* C19's case: a broadcast pruned a failed recipient after a command had
\* registered a chat during its sends; the chat registered meanwhile is in
\* CHATS and in the record, and no write failed.
C19_Witness ==
    /\ nWFail = 0
    /\ load_chats(file).val = CHATS
    /\ \E j \in Jobs :
           /\ job[j].pc = "done" /\ job[j].out = "returned" /\ job[j].mut
           /\ job[j].dead # {}
           /\ CHATS \ job[j].snap # {}

\* C20: a register_chat or unregister_chat call of a handler that ends with
\* the exception of its write leaves CHATS as it was before the call.
C20_FailedWriteKeepsSet ==
    [][(h.pc = "idle" /\ h'.pc # "idle" /\ h'.ret = "raise") => CHATS' = CHATS]_vars

=============================================================================
